---- MODULE Spec2Model ----
(***************************************************************************)
(* TimeSeriesDBSCAN (sktime/clustering/dbscan.py): an adapter that runs    *)
(* sklearn's DBSCAN in precomputed-distance mode on a panel of time        *)
(* series.  The model follows one adapter object through construction,     *)
(* fit and predict calls.                                                  *)
(***************************************************************************)
EXTENDS Integers, Sequences, FiniteSets, TLC

\* ------------------------------------------------------------------ bounds
\* longest panel (number of instances) a caller passes to fit or predict
MaxLen == 2
\* number of distinct time series (instances) panels are built from
MaxInst == 3

\* ------------------------------------------------------------- data model
\* A time series instance is identified by its number.
Inst == 0 .. (MaxInst - 1)

\* The level of instance a: instances come in close pairs (0 and 1, 2 and 3,
\* ...) that lie further from each other than the two of a pair do.
Value(a) == a + (a \div 2)

\* Number of time points of an instance: odd instances are one point longer.
SeriesLen(a) == 1 + (a % 2)

Range(s) == {s[i] : i \in DOMAIN s}

\* contents of the panels a caller passes: a window of one to MaxLen
\* consecutive instances (merged panels are not restricted to windows)
Panels ==
    {[k \in 1 .. n |-> first + k - 1] :
        <<first, n>> \in {w \in Inst \X (1 .. MaxLen) : w[1] + w[2] <= MaxInst}}

\* A panel object a caller holds: its content and its identity.  Two objects
\* with the same c and different id are equal-valued but distinct.
UserObjs == [c : Panels, id : {1, 2}]

\* the panel holds series of different lengths
IsUnequalLength(c) == \E i, j \in DOMAIN c : SeriesLen(c[i]) # SeriesLen(c[j])

\* at most one value: {} is None / attribute not set, {v} is the value v
The(opt) == CHOOSE v \in opt : TRUE

\* ------------------------------------------------- distance matrix provider
\* kind "object": a BasePairwiseTransformerPanel declaring capability tags
\*                mv, ul, mis, and raising on a panel it declares not to handle;
\* kind "callable": a plain function, declaring nothing; ul says whether it
\*                copes with unequal length series;
\* kind "str": the name of a distance.
Providers ==
    [kind : {"object"}, mv : BOOLEAN, ul : BOOLEAN, mis : BOOLEAN]
    \cup [kind : {"callable"}, mv : {TRUE}, ul : BOOLEAN, mis : {TRUE}]
    \cup [kind : {"str"}, mv : {FALSE}, ul : {FALSE}, mis : {FALSE}]

\* distance.get_tag(name) of a capability-declaring provider
get_tag(distance, name) ==
    CASE name = "capability:multivariate" -> distance.mv
      [] name = "capability:unequal_length" -> distance.ul
      [] name = "capability:missing_values" -> distance.mis

\* distance(X) returns a matrix (TRUE) or raises (FALSE): a str is not
\* callable, other providers raise on unequal length input they cannot handle
ProviderAccepts(distance, c) ==
    /\ distance.kind # "str"
    /\ IsUnequalLength(c) => distance.ul

Abs(x) == IF x < 0 THEN -x ELSE x

\* the square, symmetric, zero-diagonal matrix of pairwise distances
DistanceMatrix(c) ==
    [i \in DOMAIN c |-> [j \in DOMAIN c |-> Abs(Value(c[i]) - Value(c[j]))]]

\* ------------------------------------------------------ delegated clusterer
\* DBSCAN(metric="precomputed", **params): an unfitted delegate
DBSCAN(p) == [params |-> ("metric" :> "precomputed") @@ p, attrs |-> <<>>]

\* sklearn validates eps > 0 and min_samples >= 1 when fit is called
ValidParams(p) == p["eps"] > 0 /\ p["min_samples"] >= 1

\* the samples within eps of sample i, i itself included
Neighborhood(D, eps, i) == {j \in DOMAIN D : D[i][j] <= eps}

\* the core samples: those with at least min_samples samples in their neighbourhood
CoreSamples(D, p) ==
    {i \in DOMAIN D : Cardinality(Neighborhood(D, p["eps"], i)) >= p["min_samples"]}

RECURSIVE Expand(_, _, _, _, _)
\* the cluster grown from S through core samples, over the unlabelled samples
Expand(D, eps, core, S, free) ==
    LET new == {v \in free \ S : \E u \in S \cap core : D[u][v] <= eps}
    IN  IF new = {} THEN S ELSE Expand(D, eps, core, S \cup new, free)

RECURSIVE dbscan_inner(_, _, _, _, _, _)
\* samples in index order; each unlabelled core sample starts the next cluster,
\* which takes the unlabelled samples reachable from it; clusters[k] is the
\* set of samples labelled k - 1
dbscan_inner(D, eps, core, i, labelled, clusters) ==
    IF i \notin DOMAIN D THEN clusters
    ELSE IF i \in labelled \/ i \notin core
         THEN dbscan_inner(D, eps, core, i + 1, labelled, clusters)
         ELSE LET S == Expand(D, eps, core, {i}, DOMAIN D \ labelled)
              IN  dbscan_inner(D, eps, core, i + 1, labelled \cup S,
                               Append(clusters, S))

\* labels_ of DBSCAN on distance matrix D: one label per sample, noise is -1
DBSCANLabels(D, p) ==
    LET clusters == dbscan_inner(D, p["eps"], CoreSamples(D, p), 1, {}, <<>>)
    IN  [v \in DOMAIN D |->
            IF \E k \in DOMAIN clusters : v \in clusters[k]
            THEN (CHOOSE k \in DOMAIN clusters : v \in clusters[k]) - 1
            ELSE -1]

\* core_sample_indices_: the 0-based indices of the core samples, ascending
DBSCANCore(D, p) ==
    LET core == CoreSamples(D, p)
        idx == SelectSeq([i \in DOMAIN D |-> i], LAMBDA i : i \in core)
    IN  [k \in DOMAIN idx |-> idx[k] - 1]

\* delegate.fit(X=distmat): the delegate with its fitted attributes set
DBSCAN_fit(d, D) ==
    LET core == DBSCANCore(D, d.params)
    IN  [d EXCEPT !.attrs =
            ("core_sample_indices_" :> core)
            @@ ("components_" :> [k \in DOMAIN core |-> D[core[k] + 1]])
            @@ ("labels_" :> DBSCANLabels(D, d.params))]

\* ------------------------------------------------------------- the adapter
VARIABLES
    self,   \* the adapter object the caller holds
    ret     \* what the last call did: its argument, its outcome, its result

vars == <<self, ret>>

\* class attribute _tags
_tags ==
    ("capability:multivariate" :> TRUE)
    @@ ("capability:unequal_length" :> TRUE)
    @@ ("capability:missing_values" :> TRUE)
    @@ ("X_inner_mtype" :> <<"pd-multiindex", "numpy3D">>)
    @@ ("capability:out_of_sample" :> FALSE)
    @@ ("capability:predict" :> TRUE)
    @@ ("capability:predict_proba" :> FALSE)

DELEGATED_PARAMS == <<"eps", "min_samples", "algorithm", "leaf_size", "n_jobs">>

DELEGATED_FITTED_PARAMS == <<"core_sample_indices_", "components_ ", "labels_">>

\* self.clone_tags(estimator, tag_names): the named tags take the estimator's values
clone_tags(tags, estimator, tag_names) ==
    [k \in DOMAIN tags |-> IF k \in tag_names THEN get_tag(estimator, k) ELSE tags[k]]

\* self.set_tags(**tag_dict): the given tags override
set_tags(tags, tag_dict) == tag_dict @@ tags

\* mutant: the provider's capability tags are not cloned
InitTags_without_clone_tags(distance) ==
    IF distance.kind = "str"
    THEN set_tags(_tags, ("X_inner_mtype" :> "numpy3D")
                         @@ ("capability:unequal_length" :> FALSE))
    ELSE _tags

\* the tags of an adapter constructed with the given distance
InitTags(distance) ==
    LET tags_to_clone == {"capability:multivariate", "capability:unequal_length",
                          "capability:missing_values"}
        t1 == IF distance.kind = "object"
              THEN clone_tags(_tags, distance, tags_to_clone)
              ELSE _tags
        tags_to_set == ("X_inner_mtype" :> "numpy3D")
                       @@ ("capability:unequal_length" :> FALSE)
    IN  IF distance.kind = "str" THEN set_tags(t1, tags_to_set) ELSE t1

\* TimeSeriesDBSCAN(**params): a constructed, unfitted adapter
__init__(params) ==
    [params     |-> params,
     tags       |-> InitTags(params["distance"]),
     _is_fitted |-> FALSE,
     _X         |-> {},
     dbscan_    |-> {},
     attrs      |-> <<>>]

\* hasattr(delegate, key) / setattr(self, key, getattr(delegate, key)) over keys
CopyFitted(attrs, delegate, keys) ==
    LET found == {k \in Range(keys) : k \in DOMAIN delegate.attrs}
    IN  [k \in DOMAIN attrs \cup found |->
            IF k \in found THEN delegate.attrs[k] ELSE attrs[k]]

\* _fit(X) on adapter obj: the adapter afterwards, whether it returned (ok) or
\* raised, and how often the provider and the delegate's fit were called
_fit(obj, X) ==
    LET o1 == [obj EXCEPT !._X = {X}]
        distance == obj.params["distance"]
    IN  IF ~ProviderAccepts(distance, X.c)
        THEN [ok |-> FALSE, obj |-> o1, ndist |-> 1, ndeleg |-> 0]
        ELSE
        LET distmat == DistanceMatrix(X.c)
            deleg_param_dict == [key \in Range(DELEGATED_PARAMS) |-> obj.params[key]]
            o2 == [o1 EXCEPT !.dbscan_ = {DBSCAN(deleg_param_dict)}]
        IN  IF ~ValidParams(deleg_param_dict)
            THEN [ok |-> FALSE, obj |-> o2, ndist |-> 1, ndeleg |-> 1]
            ELSE
            LET fitted == DBSCAN_fit(The(o2.dbscan_), distmat)
                o3 == [o2 EXCEPT !.dbscan_ = {fitted}]
            IN  [ok |-> TRUE,
                 obj |-> [o3 EXCEPT !.attrs =
                             CopyFitted(o3.attrs, fitted, DELEGATED_FITTED_PARAMS)],
                 ndist |-> 1, ndeleg |-> 1]

\* BaseClusterer.fit: runs _fit and marks the adapter fitted when it returns
fit(obj, X) ==
    LET r == _fit(obj, X)
    IN  IF r.ok THEN [r EXCEPT !.obj._is_fitted = TRUE] ELSE r

\* mutant: the check is skipped
check_is_fitted_skipped(obj) == TRUE

\* BaseClusterer.check_is_fitted: predict goes on only on a fitted adapter
check_is_fitted(obj) == obj._is_fitted

\* update_data(X, X_new): the fit data followed by the instances of X_new that
\* are not in it, as a new panel object (identity 0, held by no caller)
update_data(X, X_new) ==
    [c  |-> X.c \o SelectSeq(X_new.c, LAMBDA a : a \notin Range(X.c)),
     id |-> 0]

\* mutant: no object is ever taken for the stored one
is_never(X, stored) == FALSE

\* mutant: equal content is taken for the same object
is_equal_valued(X, stored) == stored # {} /\ The(stored).c = X.c

\* X is self._X
is_(X, stored) == stored = {X}

\* self.clone(): the name of a new object, constructed from the same parameters
clone(me) == "clone"

\* mutant: the adapter itself, not a clone, is fitted on the merged panel
_predict_fits_self(heap, me, X) ==
    IF heap[me]._X = {} \/ (is_(X, heap[me]._X) /\ "labels_" \notin DOMAIN heap[me].attrs)
    THEN [heap |-> heap, raised |-> "AttributeError", value |-> {},
          warned |-> FALSE, ndist |-> 0, ndeleg |-> 0]
    ELSE IF is_(X, heap[me]._X)
    THEN [heap |-> heap, raised |-> "none", value |-> {heap[me].attrs["labels_"]},
          warned |-> FALSE, ndist |-> 0, ndeleg |-> 0]
    ELSE
    LET r == fit(heap[me], update_data(The(heap[me]._X), X))
    IN  [heap |-> [heap EXCEPT ![me] = r.obj],
         raised |-> IF r.ok THEN "none" ELSE "Exception",
         value |-> IF r.ok THEN {r.obj.attrs["labels_"]} ELSE {},
         warned |-> TRUE, ndist |-> r.ndist, ndeleg |-> r.ndeleg]

\* mutant: the stored labels are returned whatever X is
_predict_stored_labels(heap, me, X) ==
    [heap |-> heap, raised |-> "none", value |-> {heap[me].attrs["labels_"]},
     warned |-> FALSE, ndist |-> 0, ndeleg |-> 0]

\* _predict(X) on the adapter named me of the heap
_predict(heap, me, X) ==
    IF heap[me]._X = {} \/ (is_(X, heap[me]._X) /\ "labels_" \notin DOMAIN heap[me].attrs)
    THEN [heap |-> heap, raised |-> "AttributeError", value |-> {},
          warned |-> FALSE, ndist |-> 0, ndeleg |-> 0]
    ELSE IF is_(X, heap[me]._X)
    THEN [heap |-> heap, raised |-> "none", value |-> {heap[me].attrs["labels_"]},
          warned |-> FALSE, ndist |-> 0, ndeleg |-> 0]
    ELSE
    LET all_X == update_data(The(heap[me]._X), X)
        c  == clone(me)
        h0 == heap @@ (c :> __init__(heap[me].params))
        r  == fit(h0[c], all_X)
        h1 == [h0 EXCEPT ![c] = r.obj]
    IN  [heap |-> h1,
         raised |-> IF r.ok THEN "none" ELSE "Exception",
         value |-> IF r.ok THEN {h1[c].attrs["labels_"]} ELSE {},
         warned |-> TRUE, ndist |-> r.ndist, ndeleg |-> r.ndeleg]

\* BaseClusterer.predict
predict(heap, me, X) ==
    IF ~check_is_fitted(heap[me])
    THEN [heap |-> heap, raised |-> "NotFittedError", value |-> {},
          warned |-> FALSE, ndist |-> 0, ndeleg |-> 0]
    ELSE _predict(heap, me, X)

\* ------------------------------------------------------------ the behaviour
\* eps and min_samples tried: a setting that clusters the close pairs, and,
\* with one provider, a setting the delegate rejects
Settings == {[eps |-> 1, min_samples |-> 2], [eps |-> 1, min_samples |-> 0]}

Constructions ==
    {<<d, s>> \in Providers \X Settings :
        s.min_samples > 0 \/ d = [kind |-> "object", mv |-> TRUE, ul |-> TRUE, mis |-> TRUE]}

Params(distance, s) ==
    ("distance" :> distance) @@ ("eps" :> s.eps) @@ ("min_samples" :> s.min_samples)
    @@ ("algorithm" :> "auto") @@ ("leaf_size" :> 30) @@ ("n_jobs" :> "None")

Init ==
    /\ \E a \in Constructions : self = __init__(Params(a[1], a[2]))
    /\ ret = [op |-> "__init__", arg |-> {}, raised |-> "none", value |-> {},
              warned |-> FALSE, ndist |-> 0, ndeleg |-> 0]

\* the caller calls self.fit(X)
Fit(X) ==
    LET r == fit(self, X)
    IN  /\ self' = r.obj
        /\ ret' = [op |-> "fit", arg |-> {X},
                   raised |-> IF r.ok THEN "none" ELSE "Exception",
                   value |-> {}, warned |-> FALSE,
                   ndist |-> r.ndist, ndeleg |-> r.ndeleg]

\* the caller calls self.predict(X)
Predict(X) ==
    LET r == predict(("self" :> self), "self", X)
    IN  /\ self' = r.heap["self"]
        /\ ret' = [op |-> "predict", arg |-> {X}, raised |-> r.raised,
                   value |-> r.value, warned |-> r.warned,
                   ndist |-> r.ndist, ndeleg |-> r.ndeleg]

Next == \E X \in UserObjs : Fit(X) \/ Predict(X)

Spec == Init /\ [][Next]_vars

\* ------------------------------------------------------------- shorthands
\* self.distance
distance == self.params["distance"]

\* the parameters the adapter hands to the delegate
DelegParams == [key \in Range(DELEGATED_PARAMS) |-> self.params[key]]

\* ----------------------------------------------------------------- claims

\* C1: predict(X_new) on a fitted adapter, X_new not the stored fit data object,
\* leaves the adapter's stored fit data and its fitted attributes (labels_,
\* core_sample_indices_, components_) exactly as they were, call after call.
C1_PredictNewKeepsFittedState ==
    [][(self._is_fitted /\ ret'.op = "predict" /\ ret'.arg # self._X)
         => (self'._X = self._X /\ self'.attrs = self.attrs
             /\ self'._is_fitted /\ self'.dbscan_ = self.dbscan_)]_vars

C1_Witness ==
    /\ ret.op = "predict" /\ self._is_fitted /\ ret.arg # self._X
    /\ ret.warned /\ ret.raised = "none" /\ ret.ndeleg = 1

\* C2: predict(X) with X the stored fit data object returns the stored labels_,
\* calls neither the provider nor the delegate, emits no warning and changes
\* nothing of the adapter.
C2_PredictStoredReturnsLabels ==
    [][(self._is_fitted /\ ret'.op = "predict" /\ ret'.arg = self._X)
         => (/\ ret'.raised = "none"
             /\ ret'.value = {self.attrs["labels_"]}
             /\ ret'.ndist = 0 /\ ret'.ndeleg = 0 /\ ~ret'.warned
             /\ self' = self)]_vars

C2_Witness ==
    /\ ret.op = "predict" /\ self._is_fitted /\ ret.arg = self._X
    /\ ret.raised = "none" /\ ret.value = {self.attrs["labels_"]} /\ ret.ndist = 0

\* C3: predict on an adapter no fit has succeeded on fails with NotFittedError,
\* returns nothing, fits nothing and changes nothing; an unfitted adapter
\* becomes fitted only by a fit call that returns.
C3_NotFittedUntilFit ==
    [][/\ (~self._is_fitted /\ ret'.op = "predict")
            => (/\ ret'.raised = "NotFittedError" /\ ret'.value = {}
                /\ ret'.ndist = 0 /\ ret'.ndeleg = 0 /\ ~ret'.warned
                /\ self' = self)
       /\ (~self._is_fitted /\ self'._is_fitted)
            => (ret'.op = "fit" /\ ret'.raised = "none")]_vars

C3_Witness ==
    /\ ret.op = "predict" /\ ~self._is_fitted /\ ret.raised = "NotFittedError"
    /\ self._X # {}

\* C4: after a fit that returns, each of core_sample_indices_, components_ and
\* labels_ the delegate has is set on the adapter, with the delegate's value.
C4_DelegateAttrsCopied ==
    (ret.op = "fit" /\ ret.raised = "none")
      => \A k \in {"core_sample_indices_", "components_", "labels_"} :
            k \in DOMAIN The(self.dbscan_).attrs
              => (k \in DOMAIN self.attrs
                  /\ self.attrs[k] = The(self.dbscan_).attrs[k])

C6_PredictOneLabelPerInstance ==
    (ret.op = "predict" /\ ret.raised = "none")
      => Len(The(ret.value)) = Len(The(ret.arg).c)

\* C7: on a fitted adapter, labels_ holds one label per instance of the stored
\* fit data.
C7_LabelsMatchFitData ==
    self._is_fitted => Len(self.attrs["labels_"]) = Len(The(self._X).c)

C9_ShortcutByIdentity ==
    [][/\ (/\ self._is_fitted /\ ret'.op = "predict" /\ ret'.arg # self._X
           /\ The(ret'.arg).c = The(self._X).c)
            => (ret'.warned /\ ret'.ndist = 1)
       /\ (self._is_fitted /\ ret'.op = "predict" /\ ~ret'.warned)
            => ret'.arg = self._X]_vars

C9_Witness ==
    /\ ret.op = "predict" /\ self._is_fitted /\ ret.arg # self._X
    /\ The(ret.arg).c = The(self._X).c
    /\ ret.warned /\ ret.ndist = 1 /\ ret.raised = "none"

\* C10: a fit that raises on a fitted adapter leaves the stored fit data and
\* the fitted attributes as the last fit that returned set them.
C10_FailedFitKeepsFittedState ==
    [][(self._is_fitted /\ ret'.op = "fit" /\ ret'.raised # "none")
         => (self'._X = self._X /\ self'.attrs = self.attrs)]_vars

====
